---- MODULE Spec2Model ----
(***************************************************************************)
(* Authentication and authorization core of the tennis-shop backend:       *)
(* the credential store (users table), the password hasher, the token      *)
(* codec, the /auth endpoints (register, login, refresh, me), the request  *)
(* dependencies get_current_user / require_admin, the unit of work of      *)
(* get_db, and the update of a maintenance record.                         *)
(*                                                                         *)
(* Time is counted in minutes.  Strings of the HTTP layer are modelled as  *)
(* sequences of chunks: the literal "Bearer " is one chunk, a compact JWT  *)
(* is one chunk, any other text is a junk chunk.                           *)
(***************************************************************************)
EXTENDS Integers, Sequences, FiniteSets, TLC

VARIABLES users, now, ticks, issued, reg, resp, records, shop

vars == <<users, now, ticks, issued, reg, resp, records, shop>>

(***************************************************************************)
(* Bounds of the model                                                     *)
(***************************************************************************)
MaxTicks == 2     \* clock advances explored
MaxPairs == 2     \* token pairs handed out that are remembered
MaxProcs == 2     \* concurrently running register requests
MaxDeleted == 1   \* removed users whose tokens are still remembered
MaxRows == 4      \* maintenance records of the store that is listed
MaxPage == 4      \* pages asked for

Procs == 1..MaxProcs

(***************************************************************************)
(* Input domains                                                           *)
(***************************************************************************)
Usernames == {"alice", "bob"}
Emails    == {"alice@x.com", "bob@x.com"}
Passwords == {"secret123", "hunter2222"}
IdNames   == <<"uuid-1", "uuid-2", "uuid-3", "uuid-4">>
IdPool    == SubSeq(IdNames, 1, 2 + MaxDeleted)
UserIds   == {IdPool[i] : i \in 1..Len(IdPool)}
SaltPool  == <<"salt-1", "salt-2">>
Unset     == "<unset>"
NoSub     == "<missing>"

\* app/config.py
ACCESS_TOKEN_EXPIRE_MINUTES == 480
REFRESH_TOKEN_EXPIRE_DAYS   == 30

AccessTTL  == ACCESS_TOKEN_EXPIRE_MINUTES
\* timedelta(days=REFRESH_TOKEN_EXPIRE_DAYS), in minutes
RefreshTTL == REFRESH_TOKEN_EXPIRE_DAYS * 24 * 60

\* class UserRole
UserRole == {"admin", "staff"}

(***************************************************************************)
(* app/utils/exceptions.py                                                 *)
(***************************************************************************)
NotFoundException(detail)     == [status |-> 404, detail |-> detail]
BadRequestException(detail)   == [status |-> 400, detail |-> detail]
UnauthorizedException(detail) == [status |-> 401, detail |-> detail]
ForbiddenException(detail)    == [status |-> 403, detail |-> detail]
ConflictException(detail)     == [status |-> 409, detail |-> detail]
\* an exception that is no HTTPException leaves get_db (rollback, re-raise)
\* and is answered by the framework's default handler
InternalServerError(detail)   == [status |-> 500, detail |-> detail]

(***************************************************************************)
(* app/utils/security.py: password hasher                                  *)
(***************************************************************************)
Digest(plain, salt) == [alg |-> "bcrypt", salt |-> salt, of |-> plain]

get_password_hash(plain, salt) == Digest(plain, salt)

verify_password(plain, hashed) == Digest(plain, hashed.salt) = hashed

\* the salt is random per call: a salt no stored digest carries; which one is
\* immaterial, so the first unused one of the pool is taken
FreshSalts(table) ==
    LET free == {i \in 1..Len(SaltPool) :
                    \A u \in table : u.hashed_password.salt # SaltPool[i]} IN
    IF free = {} THEN {SaltPool[1]}
    ELSE {SaltPool[i] : i \in {j \in free : \A k \in free : j <= k}}

(***************************************************************************)
(* app/utils/security.py: token codec                                      *)
(***************************************************************************)
Jwt(sig, sub, hasexp, exp, type) ==
    [kind |-> "jwt", sig |-> sig, sub |-> sub, hasexp |-> hasexp,
     exp |-> exp, type |-> type]

BEARER == [kind |-> "scheme", sig |-> "", sub |-> "", hasexp |-> FALSE,
           exp |-> 0, type |-> ""]
JUNK   == [kind |-> "junk", sig |-> "", sub |-> "", hasexp |-> FALSE,
           exp |-> 0, type |-> ""]

NoPayload == [ok |-> FALSE, sub |-> "", exp |-> 0, type |-> ""]

create_access_token(sub, t) == Jwt("ok", sub, TRUE, t + AccessTTL, "access")

create_refresh_token(sub, t) == Jwt("ok", sub, TRUE, t + RefreshTTL, "refresh")

\* token: a string, i.e. a sequence of chunks
decode_token(token, t) ==
    IF Len(token) # 1 \/ token[1].kind # "jwt" THEN NoPayload   \* malformed
    ELSE IF token[1].sig # "ok" THEN NoPayload                  \* signature
    ELSE IF ~token[1].hasexp THEN NoPayload                     \* claim missing
    ELSE IF t > token[1].exp THEN NoPayload                     \* expired
    ELSE [ok |-> TRUE, sub |-> token[1].sub, exp |-> token[1].exp,
          type |-> token[1].type]

verify_token_type(payload, expected) == payload.type = expected

(***************************************************************************)
(* app/models/user.py: the users table                                     *)
(***************************************************************************)
User(id, email, username, hashed_password, first_name, last_name, phone_number, role) ==
    [id |-> id, email |-> email, username |-> username,
     hashed_password |-> hashed_password, first_name |-> first_name,
     last_name |-> last_name, phone_number |-> phone_number, role |-> role,
     is_active |-> TRUE]                                 \* default=True

UniqueViolationPkOnly(table, row) == \E u \in table : u.id = row.id

\* unique=True on email and on username, primary key on id
UniqueViolation(table, row) ==
    \E u \in table : u.email = row.email \/ u.username = row.username
                     \/ u.id = row.id

\* select(User).where(col == value).scalar_one_or_none(): the set holds the
\* matching row, or is empty
ByUsername(table, username) == {u \in table : u.username = username}
ByEmail(table, email)       == {u \in table : u.email = email}
ById(table, id)             == {u \in table : u.id = id}

One(S) == CHOOSE x \in S : TRUE

\* default=lambda: str(uuid.uuid4()): an identifier no row carries and no
\* token handed out names; which one is immaterial, so the first unused one
\* of the pool is taken
FreshIds(table) ==
    LET free == {i \in 1..Len(IdPool) :
                    /\ \A u \in table : u.id # IdPool[i]
                    /\ \A k \in issued : k.user # IdPool[i]} IN
    {IdPool[i] : i \in {j \in free : \A k \in free : j <= k}}

\* UUID(user_id): the canonical identifiers parse, and so do other spellings
\* of a UUID (upper case, braces, urn:uuid:) that equal no stored id string
UUIDSpellings == UserIds \cup {"UUID-1"}
IsUUID(s) == s \in UUIDSpellings

(***************************************************************************)
(* app/schemas/user.py: UserCreate                                         *)
(***************************************************************************)
RoleInputs == UserRole \cup {Unset}
RoleOrDefaultAdmin(role) == IF role = Unset THEN "admin" ELSE role

\* role: UserRole = UserRole.STAFF
RoleOrDefault(role) == IF role = Unset THEN "staff" ELSE role

UserCreate == [email : Emails, username : Usernames, password : Passwords,
               first_name : {"Al", "Bo"}, last_name : {"Ace", "Lob"},
               phone_number : {Unset, "555"}, role : RoleInputs]

\* class UserResponse(UserBase): the fields of the response body, read from
\* the row (from_attributes); the two timestamps are left out
UserResponse(user) ==
    [id |-> user.id, email |-> user.email, username |-> user.username,
     first_name |-> user.first_name, last_name |-> user.last_name,
     phone_number |-> user.phone_number, role |-> user.role,
     is_active |-> user.is_active]

NoContent ==
    [id |-> "", email |-> "", username |-> "", first_name |-> "",
     last_name |-> "", phone_number |-> Unset, role |-> "",
     is_active |-> FALSE]

\* sign-up requests sent concurrently
RaceSignups == [email : Emails, username : Usernames, password : {"secret123"},
                first_name : {"Al"}, last_name : {"Ace"},
                phone_number : {Unset}, role : {Unset}]

(***************************************************************************)
(* app/routers/auth.py: register                                           *)
(***************************************************************************)
UsernameTaken(table, user_data) == ByUsername(table, user_data.username) # {}

EmailTaken(table, user_data) == ByEmail(table, user_data.email) # {}

RegisterConflictEmailFirst(table, user_data) ==
    IF EmailTaken(table, user_data) THEN "Email already registered"
    ELSE IF UsernameTaken(table, user_data) THEN "Username already registered"
    ELSE ""

\* the two existence checks in the order of the handler: the detail of the
\* ConflictException raised, or "" when both pass
RegisterConflict(table, user_data) ==
    IF UsernameTaken(table, user_data) THEN "Username already registered"
    ELSE IF EmailTaken(table, user_data) THEN "Email already registered"
    ELSE ""

NewUser(user_data, id, salt) ==
    User(id, user_data.email, user_data.username,
         get_password_hash(user_data.password, salt),
         user_data.first_name, user_data.last_name, user_data.phone_number,
         RoleOrDefault(user_data.role))

\* db.add(new_user); await db.commit(): the INSERT is refused by the store
\* when a unique constraint is violated, and the IntegrityError is caught
\* nowhere in the handler: get_db rolls back and re-raises it
CommitInsert(table, row) ==
    IF UniqueViolation(table, row)
      THEN [status |-> InternalServerError("IntegrityError").status,
            detail |-> "IntegrityError", table |-> table, user |-> "",
            content |-> NoContent]
      ELSE [status |-> 201, detail |-> "", table |-> table \cup {row},
            user |-> row.id, content |-> UserResponse(row)]

registerReplacing(user_data, table, id, salt) ==
    IF RegisterConflict(table, user_data) # ""
      THEN [status |-> ConflictException("").status,
            detail |-> RegisterConflict(table, user_data),
            table |-> (table \ ByUsername(table, user_data.username))
                        \cup {NewUser(user_data, id, salt)},
            user |-> "", content |-> NoContent]
    ELSE CommitInsert(table, NewUser(user_data, id, salt))

\* the whole handler run without interleaving
register(user_data, table, id, salt) ==
    IF RegisterConflict(table, user_data) # ""
      THEN [status |-> ConflictException("").status,
            detail |-> RegisterConflict(table, user_data),
            table |-> table, user |-> "", content |-> NoContent]
    ELSE CommitInsert(table, NewUser(user_data, id, salt))

\* sign-up requests sent while requests are served one at a time
Signups ==
    {[email |-> "alice@x.com", username |-> "alice",
      password |-> "secret123", first_name |-> "Al", last_name |-> "Ace",
      phone_number |-> Unset, role |-> Unset],
     [email |-> "bob@x.com", username |-> "bob",
      password |-> "hunter2222", first_name |-> "Bo", last_name |-> "Lob",
      phone_number |-> "555", role |-> "admin"],
     [email |-> "alice@x.com", username |-> "bob",
      password |-> "secret123", first_name |-> "Bo", last_name |-> "Ace",
      phone_number |-> Unset, role |-> "staff"]}

(***************************************************************************)
(* app/routers/auth.py: login and refresh                                  *)
(***************************************************************************)
NoToken == JUNK

Fail(exc) == [status |-> exc.status, detail |-> exc.detail, user |-> "",
              access_token |-> NoToken, refresh_token |-> NoToken]

\* Token(access_token=..., refresh_token=..., token_type="bearer")
Token(access_token, refresh_token, user) ==
    [status |-> 200, detail |-> "", user |-> user.id,
     access_token |-> access_token, refresh_token |-> refresh_token]

LoginNames == Usernames \cup {"mallory"}
UserLogin == [username : LoginNames, password : Passwords]

\* lines 85-86
CredentialsRejected(found, credentials) ==
    found = {} \/ ~verify_password(credentials.password,
                                   One(found).hashed_password)

LoginDeactivatedNever(user) == FALSE

\* lines 88-89
LoginDeactivated(user) == ~user.is_active

LoginTokensSwapped(user, t) ==
    Token(create_refresh_token(user.id, t), create_access_token(user.id, t),
          user)

LoginTokensBothAccess(user, t) ==
    Token(create_access_token(user.id, t), create_access_token(user.id, t),
          user)

\* lines 91-99
LoginTokens(user, t) ==
    Token(create_access_token(user.id, t), create_refresh_token(user.id, t),
          user)

login(credentials, t, table) ==
    LET found == ByUsername(table, credentials.username) IN
    IF CredentialsRejected(found, credentials)
      THEN Fail(UnauthorizedException("Incorrect username or password"))
    ELSE IF LoginDeactivated(One(found))
      THEN Fail(UnauthorizedException("User account is deactivated"))
    ELSE LoginTokens(One(found), t)

\* payload.get("sub") is None or empty
NoSubject(payload) == payload.sub \in {NoSub, ""}

\* lines 119-120
RefreshTypeRejected(payload) == ~verify_token_type(payload, "refresh")

RefreshUserRejectedIfAbsent(found) == found = {}

\* lines 130-131
RefreshUserRejected(found) == found = {} \/ ~One(found).is_active

RefreshTokensForName(user, t) ==
    Token(create_access_token(user.username, t),
          create_refresh_token(user.username, t), user)

\* lines 133-141
RefreshTokens(user, t) ==
    Token(create_access_token(user.id, t), create_refresh_token(user.id, t),
          user)

refresh_access_token(refresh_token, t, table) ==
    LET payload == decode_token(refresh_token, t) IN
    IF ~payload.ok
      THEN Fail(UnauthorizedException("Invalid or expired refresh token"))
    ELSE IF RefreshTypeRejected(payload)
      THEN Fail(UnauthorizedException("Invalid token type"))
    ELSE IF NoSubject(payload)
      THEN Fail(UnauthorizedException("Invalid token payload"))
    ELSE LET found == ById(table, payload.sub) IN
      IF RefreshUserRejected(found)
        THEN Fail(UnauthorizedException("User not found or deactivated"))
      ELSE RefreshTokens(One(found), t)

(***************************************************************************)
(* app/dependencies.py                                                     *)
(***************************************************************************)
\* Header(None): the header is absent, or a string
NoHeader == [present |-> FALSE, value |-> <<>>]
HeaderOf(str) == [present |-> TRUE, value |-> str]

\* str.startswith("Bearer ")
StartsWithBearer(str) == Len(str) >= 1 /\ str[1] = BEARER

\* str.replace("Bearer ", ""): every occurrence is removed
ReplaceBearer(str) == SelectSeq(str, LAMBDA c : c # BEARER)

\* line 31
HeaderRejected(authorization) ==
    \/ ~authorization.present
    \/ authorization.value = <<>>
    \/ ~StartsWithBearer(authorization.value)

ExtractTokenRaw(authorization) == authorization.value

\* line 34
ExtractToken(authorization) == ReplaceBearer(authorization.value)

GateTypeRejectedNever(payload) == FALSE

\* lines 40-41
GateTypeRejected(payload) == ~verify_token_type(payload, "access")

GateInactiveNever(user) == FALSE

\* lines 60-61
GateInactive(user) == ~user.is_active

PrincipalOfFirst(user) == [status |-> 200, detail |-> "", user |-> IdPool[1],
                           role |-> user.role]

\* line 63
Principal(user) == [status |-> 200, detail |-> "", user |-> user.id,
                    role |-> user.role]
Deny(exc) == [status |-> exc.status, detail |-> exc.detail, user |-> "",
              role |-> ""]

get_current_user(authorization, t, table) ==
    IF HeaderRejected(authorization)
      THEN Deny(UnauthorizedException("Missing or invalid authorization header"))
    ELSE LET payload == decode_token(ExtractToken(authorization), t) IN
      IF ~payload.ok
        THEN Deny(UnauthorizedException("Invalid or expired token"))
      ELSE IF GateTypeRejected(payload)
        THEN Deny(UnauthorizedException("Invalid token type"))
      ELSE IF NoSubject(payload)
        THEN Deny(UnauthorizedException("Invalid token payload"))
      ELSE IF ~IsUUID(payload.sub)
        THEN Deny(UnauthorizedException("Invalid user ID format"))
      ELSE LET found == ById(table, payload.sub) IN
        IF found = {}
          THEN Deny(UnauthorizedException("User not found"))
        ELSE IF GateInactive(One(found))
          THEN Deny(UnauthorizedException("User account is deactivated"))
        ELSE Principal(One(found))

NotAdminNever(current_user) == FALSE

\* lines 96-97
NotAdmin(current_user) == current_user.role # "admin"

\* current_user: what Depends(get_current_user) produced; its exception
\* reaches the client before require_admin runs
require_admin(current_user) ==
    IF current_user.status # 200 THEN current_user
    ELSE IF NotAdmin(current_user)
      THEN Deny(ForbiddenException("Admin access required"))
    ELSE current_user

(***************************************************************************)
(* Requests a client can send                                              *)
(***************************************************************************)
TokenSubs  == UserIds \cup {"UUID-1", "not-a-uuid", "", NoSub}
TokenTypes == {"access", "refresh", ""}

\* every token text considered at time t: tokens signed with the secret key
\* whose expiry lies at or just before t, or that carry no expiry; tokens
\* signed with another key; the tokens handed out so far
CraftedTokens(t) ==
    {Jwt("ok", sub, TRUE, exp, type) :
        sub \in TokenSubs, exp \in {t - 1, t}, type \in TokenTypes}
    \cup {Jwt("ok", sub, FALSE, 0, type) :
        sub \in UserIds, type \in {"access", "refresh"}}
    \cup {Jwt("bad", sub, TRUE, t, type) :
        sub \in UserIds, type \in {"access", "refresh"}}

IssuedTokens == {i.tok : i \in issued}

Tokens(t) == CraftedTokens(t) \cup IssuedTokens

TokenStrings(t) ==
    {<<>>, <<JUNK>>} \cup {<<k>> : k \in Tokens(t)}
    \cup {<<k, JUNK>> : k \in Tokens(t)}

HeaderStrings(t) ==
    {<<>>, <<BEARER>>, <<JUNK>>, <<BEARER, JUNK>>}
    \cup {<<k>> : k \in Tokens(t)}
    \cup {<<BEARER, k>> : k \in Tokens(t)}
    \cup {<<BEARER, BEARER, k>> : k \in Tokens(t)}

Headers(t) == {NoHeader} \cup {HeaderOf(str) : str \in HeaderStrings(t)}

\* the requests the endpoints are driven with: the tokens handed out so far
\* and one token for each way a token can be wrong
SentTokens(t) ==
    IssuedTokens
    \cup {Jwt("ok", sub, TRUE, t, "access") : sub \in TokenSubs}
    \cup {Jwt("ok", sub, TRUE, t, "refresh") : sub \in {"uuid-1", NoSub}}
    \cup {Jwt("ok", "uuid-1", TRUE, t - 1, type) : type \in {"access", "refresh"}}
    \cup {Jwt("bad", "uuid-1", TRUE, t, type) : type \in {"access", "refresh"}}
    \cup {Jwt("ok", "uuid-1", TRUE, t, ""), Jwt("ok", "uuid-1", FALSE, 0, "access")}

SentTokenStrings(t) == {<<>>, <<JUNK>>} \cup {<<k>> : k \in SentTokens(t)}

SentHeaders(t) ==
    {NoHeader, HeaderOf(<<>>), HeaderOf(<<BEARER>>)}
    \cup {HeaderOf(<<k>>) : k \in IssuedTokens}
    \cup {HeaderOf(<<BEARER, k>>) : k \in SentTokens(t)}
    \cup {HeaderOf(<<BEARER, BEARER, k>>) : k \in IssuedTokens}

SentAdminHeaders(t) ==
    {NoHeader}
    \cup {HeaderOf(<<BEARER, k>>) : k \in IssuedTokens}
    \cup {HeaderOf(<<BEARER, Jwt("ok", sub, TRUE, t, "access")>>) :
            sub \in UserIds}

(***************************************************************************)
(* State                                                                   *)
(***************************************************************************)
NoData == [email |-> "", username |-> "", password |-> "", first_name |-> "",
           last_name |-> "", phone_number |-> Unset, role |-> Unset]
Idle   == [pc |-> "idle", data |-> NoData, status |-> 0, detail |-> ""]

\* what a request carried: a JSON body (sign-up or login form, or a refresh
\* token) or an Authorization header
Form(user_data) == [form |-> user_data, auth |-> NoHeader, body |-> <<>>]
Creds(credentials) ==
    [form |-> [NoData EXCEPT !.username = credentials.username,
                             !.password = credentials.password],
     auth |-> NoHeader, body |-> <<>>]
Body(str)   == [form |-> NoData, auth |-> NoHeader, body |-> str]
Auth(header) == [form |-> NoData, auth |-> header, body |-> <<>>]

\* the last request served and its response: status code, error detail and,
\* on success, the user and the tokens of the response body
Response(op, req, out) ==
    [op |-> op, req |-> req, status |-> out.status, detail |-> out.detail,
     user |-> out.user, access_token |-> out.access_token,
     refresh_token |-> out.refresh_token, content |-> NoContent]

NoTokens(out) ==
    [status |-> out.status, detail |-> out.detail, user |-> out.user,
     access_token |-> NoToken, refresh_token |-> NoToken]

NoResponse == Response("", Body(<<>>), Fail([status |-> 0, detail |-> ""]))

\* the tables clients, client_rackets, products and product_categories,
\* empty; deleted holds the ids of the maintenance records removed so far
NoShop ==
    [clients |-> {}, rackets |-> {}, products |-> {}, categories |-> {},
     deleted |-> {}]

Init ==
    /\ users = {}
    /\ now = 0
    /\ ticks = 0
    /\ issued = {}
    /\ reg = [p \in Procs |-> Idle]
    /\ resp = NoResponse
    /\ records = {}
    /\ shop = NoShop

\* the tokens a successful login or refresh hands out at time t: the field of
\* the Token response each came in, the user it was handed out for and the
\* role that user had then
Minted(out, t, table) ==
    IF out.status = 200
      THEN {[tok |-> out.access_token, field |-> "access_token", iat |-> t,
             user |-> out.user, role |-> One(ById(table, out.user)).role],
            [tok |-> out.refresh_token, field |-> "refresh_token", iat |-> t,
             user |-> out.user, role |-> One(ById(table, out.user)).role]}
      ELSE {}

\* the tokens handed out are remembered while there is room
Track(minted) ==
    IF Cardinality(issued \cup minted) <= 2 * MaxPairs
      THEN issued \cup minted ELSE issued

NextIds(table) == IF FreshIds(table) = {} THEN UserIds ELSE FreshIds(table)

\* the users removed from the store whose tokens are remembered
Removed(table) == {i.user : i \in issued} \ {u.id : u \in table}

(***************************************************************************)
(* Endpoints, one request at a time: a request is served once the response *)
(* to the previous one has been sent                                       *)
(***************************************************************************)
Ready == resp = NoResponse

SendResponse ==
    /\ ~Ready
    /\ resp' = NoResponse
    /\ UNCHANGED <<shop, records, users, now, ticks, issued, reg>>

Register ==
    \E user_data \in Signups, id \in NextIds(users), salt \in FreshSalts(users) :
        LET out == register(user_data, users, id, salt) IN
        /\ Ready
        /\ users' = out.table
        /\ resp' = [Response("register", Form(user_data), NoTokens(out))
                        EXCEPT !.content = out.content]
        /\ UNCHANGED <<shop, records, now, ticks, issued, reg>>

Login ==
    \E credentials \in UserLogin :
        LET out == login(credentials, now, users) IN
        /\ Ready
        /\ issued' = Track(Minted(out, now, users))
        /\ resp' = Response("login", Creds(credentials), out)
        /\ UNCHANGED <<shop, records, users, now, ticks, reg>>

Refresh ==
    \E refresh_token \in SentTokenStrings(now) :
        LET out == refresh_access_token(refresh_token, now, users) IN
        /\ Ready
        /\ issued' = Track(Minted(out, now, users))
        /\ resp' = Response("refresh", Body(refresh_token), out)
        /\ UNCHANGED <<shop, records, users, now, ticks, reg>>

\* GET /auth/me
Me ==
    \E authorization \in SentHeaders(now) :
        LET out == get_current_user(authorization, now, users) IN
        /\ Ready
        /\ resp' = Response("me", Auth(authorization), NoTokens(out))
        /\ UNCHANGED <<shop, records, users, now, ticks, issued, reg>>

\* an endpoint that depends on require_admin
AdminOnly ==
    \E authorization \in SentAdminHeaders(now) :
        LET out == require_admin(get_current_user(authorization, now, users)) IN
        /\ Ready
        /\ resp' = Response("admin", Auth(authorization), NoTokens(out))
        /\ UNCHANGED <<shop, records, users, now, ticks, issued, reg>>

(***************************************************************************)
(* Environment: the clock, and writes to users.is_active made in the store *)
(***************************************************************************)
TickSteps == {1, AccessTTL, RefreshTTL}

Tick ==
    \E d \in TickSteps :
        /\ Ready
        /\ ticks < MaxTicks
        /\ now' = now + d
        /\ ticks' = ticks + 1
        /\ resp' = NoResponse
        /\ UNCHANGED <<shop, records, users, issued, reg>>

SetActive ==
    \E u \in users, b \in BOOLEAN :
        /\ Ready
        /\ u.is_active # b
        /\ users' = (users \ {u}) \cup {[u EXCEPT !.is_active = b]}
        /\ resp' = NoResponse
        /\ UNCHANGED <<shop, records, now, ticks, issued, reg>>

SetRole ==
    \E u \in users, r \in UserRole :
        /\ Ready
        /\ u.role # r
        /\ users' = (users \ {u}) \cup {[u EXCEPT !.role = r]}
        /\ resp' = NoResponse
        /\ UNCHANGED <<shop, records, now, ticks, issued, reg>>

DeleteUser ==
    \E u \in users :
        /\ Ready
        /\ Cardinality(Removed(users \ {u})) <= MaxDeleted
        /\ users' = users \ {u}
        /\ resp' = NoResponse
        /\ UNCHANGED <<shop, records, now, ticks, issued, reg>>

Next ==
    \/ Register
    \/ Login
    \/ Refresh
    \/ Me
    \/ AdminOnly
    \/ SendResponse
    \/ Tick
    \/ SetActive

Spec == Init /\ [][Next]_vars

(***************************************************************************)
(* Register requests running concurrently: a request yields to the event   *)
(* loop at each await on the store                                         *)
(***************************************************************************)
Done(out) == [pc |-> "done", data |-> NoData, status |-> out.status,
              detail |-> out.detail]

\* lines 40-42: the request arrives and the username is looked up
RegCheckUsername(p) ==
    \E user_data \in RaceSignups :
        /\ reg[p].pc = "idle"
        /\ reg' = [reg EXCEPT ![p] =
              IF UsernameTaken(users, user_data)
                THEN [Done(ConflictException("Username already registered"))
                        EXCEPT !.data = user_data]
                ELSE [pc |-> "check_email", data |-> user_data, status |-> 0,
                      detail |-> ""]]
        /\ UNCHANGED <<shop, records, users, now, ticks, issued, resp>>

\* lines 45-47
RegCheckEmail(p) ==
    /\ reg[p].pc = "check_email"
    /\ reg' = [reg EXCEPT ![p] =
          IF EmailTaken(users, reg[p].data)
            THEN [Done(ConflictException("Email already registered"))
                    EXCEPT !.data = reg[p].data]
            ELSE [reg[p] EXCEPT !.pc = "commit"]]
    /\ UNCHANGED <<shop, records, users, now, ticks, issued, resp>>

\* lines 50-65
RegCommit(p) ==
    \E id \in NextIds(users), salt \in FreshSalts(users) :
        LET out == CommitInsert(users, NewUser(reg[p].data, id, salt)) IN
        /\ reg[p].pc = "commit"
        /\ users' = out.table
        /\ reg' = [reg EXCEPT ![p] = [Done(out) EXCEPT !.data = reg[p].data]]
        /\ UNCHANGED <<shop, records, now, ticks, issued, resp>>

\* the response is delivered and the connection serves its next request
RegReturn(p) ==
    /\ reg[p].pc = "done"
    /\ reg' = [reg EXCEPT ![p] = Idle]
    /\ UNCHANGED <<shop, records, users, now, ticks, issued, resp>>

NextReg ==
    \/ \E p \in Procs :
        \/ RegCheckUsername(p)
        \/ RegCheckEmail(p)
        \/ RegCommit(p)
        \/ RegReturn(p)
    \/ SetActive

SpecReg == Init /\ [][NextReg]_vars

(***************************************************************************)
(* app/database.py: get_db around register, a unit of work per request.    *)
(* Every await on the store either completes or raises a store error.      *)
(***************************************************************************)
StoreOutcomes == {"ok", "error"}

NoUnit == [pc |-> "idle", data |-> NoData, status |-> 0, detail |-> "",
           session |-> "none", pending |-> "", wrote |-> ""]

\* raise exc inside the try block of get_db
Raise(unit, exc) ==
    [unit EXCEPT !.pc = "except", !.status = exc.status,
                 !.detail = exc.detail]

CloseSkipped(unit) == [unit EXCEPT !.pc = "done"]

\* lines 44-45: await session.close(), which discards what is pending
Close(unit) ==
    [unit EXCEPT !.pc = "done", !.session = "closed", !.pending = ""]

InitUnit ==
    /\ users = {}
    /\ now = 0
    /\ ticks = 0
    /\ issued = {}
    /\ reg = [p \in Procs |-> NoUnit]
    /\ resp = NoResponse
    /\ records = {}
    /\ shop = NoShop

\* line 37: the request arrives and AsyncSessionLocal() opens its session
UnitOpen(p) ==
    \E user_data \in RaceSignups :
        /\ reg[p].pc = "idle"
        /\ reg' = [reg EXCEPT ![p] =
              [NoUnit EXCEPT !.pc = "check_username", !.data = user_data,
                             !.session = "open"]]
        /\ UNCHANGED <<shop, records, users, now, ticks, issued, resp>>

\* register, lines 40-42
UnitCheckUsername(p) ==
    \E o \in StoreOutcomes :
        /\ reg[p].pc = "check_username"
        /\ reg' = [reg EXCEPT ![p] =
              IF o = "error"
                THEN Raise(reg[p], InternalServerError("OperationalError"))
              ELSE IF UsernameTaken(users, reg[p].data)
                THEN Raise(reg[p],
                           ConflictException("Username already registered"))
              ELSE [reg[p] EXCEPT !.pc = "check_email"]]
        /\ UNCHANGED <<shop, records, users, now, ticks, issued, resp>>

\* register, lines 45-47
UnitCheckEmail(p) ==
    \E o \in StoreOutcomes :
        /\ reg[p].pc = "check_email"
        /\ reg' = [reg EXCEPT ![p] =
              IF o = "error"
                THEN Raise(reg[p], InternalServerError("OperationalError"))
              ELSE IF EmailTaken(users, reg[p].data)
                THEN Raise(reg[p],
                           ConflictException("Email already registered"))
              ELSE [reg[p] EXCEPT !.pc = "commit"]]
        /\ UNCHANGED <<shop, records, users, now, ticks, issued, resp>>

\* register, lines 50-62: db.add(new_user); await db.commit()
UnitCommit(p) ==
    \E o \in StoreOutcomes, id \in NextIds(users), salt \in FreshSalts(users) :
        LET out == CommitInsert(users, NewUser(reg[p].data, id, salt)) IN
        /\ reg[p].pc = "commit"
        /\ IF o = "error" \/ out.status # 201
             THEN /\ users' = users
                  /\ reg' = [reg EXCEPT ![p] =
                        [Raise(reg[p],
                               InternalServerError(
                                 IF o = "error" THEN "OperationalError"
                                 ELSE out.detail))
                           EXCEPT !.pending = id]]
             ELSE /\ users' = out.table
                  /\ reg' = [reg EXCEPT ![p] =
                        [reg[p] EXCEPT !.pc = "refresh", !.wrote = id]]
        /\ UNCHANGED <<shop, records, now, ticks, issued, resp>>

\* register, lines 63-65: await db.refresh(new_user); return new_user
UnitRefresh(p) ==
    \E o \in StoreOutcomes :
        /\ reg[p].pc = "refresh"
        /\ reg' = [reg EXCEPT ![p] =
              IF o = "error" \/ ById(users, reg[p].wrote) = {}
                THEN Raise(reg[p], InternalServerError("OperationalError"))
                ELSE [reg[p] EXCEPT !.pc = "return", !.status = 201]]
        /\ UNCHANGED <<shop, records, users, now, ticks, issued, resp>>

\* get_db, line 40: the handler has returned, await session.commit()
UnitFinalCommit(p) ==
    \E o \in StoreOutcomes :
        /\ reg[p].pc = "return"
        /\ reg' = [reg EXCEPT ![p] =
              IF o = "error"
                THEN Raise(reg[p], InternalServerError("OperationalError"))
                ELSE [reg[p] EXCEPT !.pc = "finally"]]
        /\ UNCHANGED <<shop, records, users, now, ticks, issued, resp>>

\* get_db, lines 41-43: await session.rollback(); raise.  The rollback
\* discards what the session holds uncommitted; what was committed stays.
UnitRollback(p) ==
    \E o \in StoreOutcomes :
        /\ reg[p].pc = "except"
        /\ reg' = [reg EXCEPT ![p] =
              IF o = "error"
                THEN [reg[p] EXCEPT !.pc = "finally", !.status = 500,
                                    !.detail = "rollback failed"]
                ELSE [reg[p] EXCEPT !.pc = "finally", !.pending = ""]]
        /\ UNCHANGED <<shop, records, users, now, ticks, issued, resp>>

\* get_db, lines 44-45
UnitClose(p) ==
    /\ reg[p].pc = "finally"
    /\ reg' = [reg EXCEPT ![p] = Close(reg[p])]
    /\ UNCHANGED <<shop, records, users, now, ticks, issued, resp>>

\* the response is delivered and the connection serves its next request
UnitReturn(p) ==
    /\ reg[p].pc = "done"
    /\ reg[p].session = "closed"
    /\ reg' = [reg EXCEPT ![p] = NoUnit]
    /\ UNCHANGED <<shop, records, users, now, ticks, issued, resp>>

UnitStep(p) ==
    \/ UnitCheckUsername(p)
    \/ UnitCheckEmail(p)
    \/ UnitCommit(p)
    \/ UnitRefresh(p)
    \/ UnitFinalCommit(p)
    \/ UnitRollback(p)
    \/ UnitClose(p)

NextUnit ==
    \E p \in Procs :
        \/ UnitOpen(p)
        \/ UnitStep(p)
        \/ UnitReturn(p)

SpecUnit == InitUnit /\ [][NextUnit]_vars

\* the event loop runs every coroutine that is ready
SpecUnitFair == SpecUnit /\ \A p \in Procs : WF_vars(UnitStep(p))

(***************************************************************************)
(* A session over time: the clock moves past the expiry of the access      *)
(* token, then past the expiry of the refresh token                        *)
(***************************************************************************)
ElapseSteps == {AccessTTL + 1, RefreshTTL}

Elapse ==
    \E d \in ElapseSteps :
        /\ Ready
        /\ ticks < MaxTicks
        /\ now' = now + d
        /\ ticks' = ticks + 1
        /\ resp' = NoResponse
        /\ UNCHANGED <<shop, records, users, issued, reg>>

NextSession ==
    \/ Register
    \/ Login
    \/ Refresh
    \/ Me
    \/ SendResponse
    \/ Elapse

SpecSession == Init /\ [][NextSession]_vars

(***************************************************************************)
(* The endpoints while the store is written behind their back: rows are    *)
(* deactivated, given another role, or removed                             *)
(***************************************************************************)
NextLive ==
    \/ Register
    \/ Login
    \/ Refresh
    \/ Me
    \/ AdminOnly
    \/ SendResponse
    \/ SetActive
    \/ SetRole
    \/ DeleteUser

SpecLive == Init /\ [][NextLive]_vars

(***************************************************************************)
(* app/routers/maintenance.py: update_maintenance_record                   *)
(***************************************************************************)
RecordIds    == {"rec-1", "rec-2"}
RecordFields == {"service_type", "service_cost", "notes"}

\* a nullable column that holds no value
None == "<none>"

\* the five columns of a maintenance record that name a product, in the
\* order create_maintenance_record checks them
ProductIdColumns ==
    <<"main_string_id", "cross_string_id", "base_grip_id", "overgrip_id",
      "dampener_id">>

NoProducts == <<None, None, None, None, None>>

\* class MaintenanceRecordCreate: the body of POST /maintenance/;
\* product_ids are the values of the five product columns
MaintenanceRecordCreate(client_racket_id, service_date, service_type, service_cost, notes, product_ids) ==
    [client_racket_id |-> client_racket_id, service_date |-> service_date,
     service_type |-> service_type, service_cost |-> service_cost,
     notes |-> notes, main_string_id |-> product_ids[1],
     cross_string_id |-> product_ids[2], base_grip_id |-> product_ids[3],
     overgrip_id |-> product_ids[4], dampener_id |-> product_ids[5]]

\* class MaintenanceRecord: a row of maintenance_records built from the
\* keyword arguments data; a service_date that was not given (negative
\* here) defaults to utcnow
MaintenanceRecord(id, performed_by_user_id, data, utcnow) ==
    [class |-> "MaintenanceRecord", id |-> id,
     client_racket_id |-> data.client_racket_id,
     performed_by_user_id |-> performed_by_user_id,
     service_date |-> IF data.service_date < 0 THEN utcnow
                      ELSE data.service_date,
     service_type |-> data.service_type,
     main_string_id |-> data.main_string_id,
     cross_string_id |-> data.cross_string_id,
     base_grip_id |-> data.base_grip_id,
     overgrip_id |-> data.overgrip_id,
     dampener_id |-> data.dampener_id,
     service_cost |-> data.service_cost, notes |-> data.notes,
     fields_set |-> {}]

\* line 163
DEFAULT_USER_ID == "c4fa281e-11af-4510-82f6-509ae30ffc98"

RecordRows ==
    {MaintenanceRecord(id, DEFAULT_USER_ID,
                       MaintenanceRecordCreate("rk-1", 0, t, c, n, NoProducts),
                       0) :
        id \in RecordIds, t \in {"stringing", "repair"}, c \in {0, 25},
        n \in {"", "tight"}}

\* class MaintenanceRecordUpdate: the request body; fields_set are the
\* fields the body named
MaintenanceRecordUpdate ==
    {[class |-> "MaintenanceRecordUpdate", id |-> "", service_type |-> t,
      service_cost |-> c, notes |-> n, fields_set |-> S] :
        t \in {"repair"}, c \in {25}, n \in {"tight"},
        S \in SUBSET RecordFields}

\* obj.model_dump: a method of pydantic models; a mapped row has none
HasModelDump(obj) == obj.class = "MaintenanceRecordUpdate"

\* obj.model_dump(exclude_unset=True): the fields that were set
ModelDumpExcludeUnset(obj) == obj.fields_set

\* for field, value in update_data.items(): setattr(target, field, value)
SetAttrs(target, source, fields) ==
    [f \in DOMAIN target |->
        IF f \in fields THEN source[f] ELSE target[f]]

NoRecord ==
    MaintenanceRecord("", "", MaintenanceRecordCreate("", 0, "", 0, "", NoProducts), 0)

\* the parameter record is the request body until line 195 binds the name
\* to the row found; lines 201-203 then read the name record
update_maintenance_record(record_id, record, table) ==
    LET found  == {r \in table : r.id = record_id}
        record_ == IF found = {} THEN NoRecord ELSE One(found)
    IN
    IF found = {}
      THEN [status |-> NotFoundException("").status,
            detail |-> "Maintenance record not found",
            table |-> table, content |-> NoRecord]
    ELSE IF ~HasModelDump(record_)
      THEN [status |-> InternalServerError("").status,
            detail |-> "AttributeError",
            table |-> table, content |-> NoRecord]
    ELSE LET updated == SetAttrs(record_, record_,
                                 ModelDumpExcludeUnset(record_)) IN
         [status |-> 200, detail |-> "",
          table |-> (table \ {record_}) \cup {updated},
          content |-> updated]

\* the tables the endpoint can find: at most one row for an id
RecordTables ==
    {T \in SUBSET RecordRows :
        \A r, q \in T : r.id = q.id => r = q}

InitMaint ==
    /\ users = {}
    /\ now = 0
    /\ ticks = 0
    /\ issued = {}
    /\ reg = [p \in Procs |-> Idle]
    /\ resp = NoResponse
    /\ records \in RecordTables
    /\ shop = NoShop

\* PUT /maintenance/{record_id}
UpdateMaintenance ==
    \E record_id \in RecordIds, record \in MaintenanceRecordUpdate :
        LET out == update_maintenance_record(record_id, record, records) IN
        /\ resp.op = ""
        /\ records' = out.table
        /\ resp' = [op |-> "update_maintenance",
                    req |-> [record_id |-> record_id, record |-> record],
                    status |-> out.status, detail |-> out.detail,
                    content |-> out.content]
        /\ UNCHANGED <<shop, users, now, ticks, issued, reg>>

MaintSendResponse ==
    /\ resp.op = "update_maintenance"
    /\ resp' = NoResponse
    /\ UNCHANGED <<shop, records, users, now, ticks, issued, reg>>

NextMaint ==
    \/ UpdateMaintenance
    \/ MaintSendResponse

SpecMaint == InitMaint /\ [][NextMaint]_vars

(***************************************************************************)
(* app/models and app/routers: clients, client_rackets, products and       *)
(* product_categories                                                      *)
(***************************************************************************)
\* the tables, by the attribute of the store that holds their rows
Kinds == {"clients", "rackets", "products", "categories"}

\* class Client, class ClientRacket, class Product, class ProductCategory:
\* a row with the columns the handlers read or write; is_active defaults
\* to True
Client(id, first_name, email) ==
    [id |-> id, first_name |-> first_name, email |-> email,
     is_active |-> TRUE]

ClientRacket(id, client_id, product_id, brand) ==
    [id |-> id, client_id |-> client_id, product_id |-> product_id,
     brand |-> brand, is_active |-> TRUE]

Product(id, category_id, name, sku) ==
    [id |-> id, category_id |-> category_id, name |-> name, sku |-> sku,
     is_active |-> TRUE]

ProductCategory(id, name, slug) ==
    [id |-> id, name |-> name, slug |-> slug, is_active |-> TRUE]

\* unique=True and nullable=False among the columns above that hold text
UniqueColumns ==
    [clients |-> {"email"}, rackets |-> {}, products |-> {"sku"},
     categories |-> {"name", "slug"}]

NotNullColumns ==
    [clients |-> {"first_name"}, rackets |-> {"client_id", "brand"},
     products |-> {"category_id", "name"}, categories |-> {"name", "slug"}]

\* what the store refuses at a flush or commit: two rows with the same
\* value in a unique column (NULLs never collide), or NULL in a column
\* that is not nullable; foreign keys are not checked by the SQLite store
\* the default DATABASE_URL names
IntegrityError(kind, rows) ==
    \/ \E r, q \in rows : \E c \in UniqueColumns[kind] :
            r # q /\ r[c] = q[c] /\ r[c] # None
    \/ \E r \in rows : \E c \in NotNullColumns[kind] : r[c] = None

NoRow == [id |-> ""]

\* what a handler hands back: the status and detail of the response, the
\* store after the request and the row of the response body
Outcome(status, detail, store, content) ==
    [status |-> status, detail |-> detail, store |-> store,
     content |-> content]

\* get_client, get_product, get_category, get_racket: the same code over
\* their tables; the row is returned whatever its is_active
get_row(kind, id, store) ==
    LET found == {r \in store[kind] : r.id = id} IN
    IF found = {}
      THEN Outcome(NotFoundException("").status, "not found", store, NoRow)
      ELSE Outcome(200, "", store, One(found))

\* update_client, update_product, update_category, update_racket: the same
\* code over their tables; the commit fails as a whole when the store
\* refuses the row
update_row(kind, id, data, store) ==
    LET found   == {r \in store[kind] : r.id = id}
        row     == One(found)
        updated == SetAttrs(row, data, ModelDumpExcludeUnset(data))
        rows    == (store[kind] \ {row}) \cup {updated}
    IN
    IF found = {}
      THEN Outcome(NotFoundException("").status, "not found", store, NoRow)
    ELSE IF IntegrityError(kind, rows)
      THEN Outcome(InternalServerError("").status, "IntegrityError", store,
                   NoRow)
    ELSE Outcome(200, "", [store EXCEPT ![kind] = rows], updated)

delete_row_hard(kind, id, store) ==
    LET found == {r \in store[kind] : r.id = id} IN
    IF found = {}
      THEN Outcome(NotFoundException("").status, "not found", store, NoRow)
      ELSE Outcome(204, "", [store EXCEPT ![kind] = store[kind] \ found],
                   NoRow)

\* delete_client, delete_product, delete_category, delete_racket: the same
\* code over their tables
delete_row(kind, id, store) ==
    LET found   == {r \in store[kind] : r.id = id}
        row     == One(found)
        updated == [row EXCEPT !.is_active = FALSE]
    IN
    IF found = {}
      THEN Outcome(NotFoundException("").status, "not found", store, NoRow)
      ELSE Outcome(204, "",
                   [store EXCEPT ![kind] = (store[kind] \ {row})
                                             \cup {updated}],
                   NoRow)

\* the ids requests name: the rows of the seeded store and one id no row has
KindIds ==
    [clients |-> {"cl-1", "cl-9"}, rackets |-> {"rk-1", "rk-9"},
     products |-> {"pr-1", "pr-9"}, categories |-> {"cat-1", "cat-2", "cat-9"}]

\* class ClientUpdate, ClientRacketUpdate, ProductUpdate and
\* ProductCategoryUpdate: request bodies, fields_set being the fields the
\* body named (a named field may carry null)
UpdateBodies ==
    [clients |->
        {[first_name |-> n, email |-> "rafa@x.com", is_active |-> FALSE,
          fields_set |-> S] :
            n \in {"Rafa", None},
            S \in {{}, {"first_name"}, {"email", "is_active"}}},
     rackets |->
        {[brand |-> "Head", is_active |-> FALSE, fields_set |-> S] :
            S \in {{}, {"brand"}, {"brand", "is_active"}}},
     products |->
        {[name |-> "ALU Power", sku |-> "sku-9", category_id |-> "cat-9",
          is_active |-> TRUE, fields_set |-> S] :
            S \in {{"name", "sku"}, {"category_id"}, {"is_active"}}},
     categories |->
        {[name |-> n, slug |-> "bags", is_active |-> TRUE,
          fields_set |-> S] :
            n \in {"Grips", "Bags"}, S \in {{"name"}, {"name", "slug"}}}]

\* a store with two categories, a product, a client and a racket of that
\* client
SeededShop ==
    [clients    |-> {Client("cl-1", "Roger", "roger@x.com")},
     rackets    |-> {ClientRacket("rk-1", "cl-1", None, "Wilson")},
     products   |-> {Product("pr-1", "cat-1", "RPM Blast", None)},
     categories |-> {ProductCategory("cat-1", "Strings", "strings"),
                     ProductCategory("cat-2", "Grips", "grips")},
     deleted    |-> {}]

InitShop ==
    /\ users = {}
    /\ now = 0
    /\ ticks = 0
    /\ issued = {}
    /\ reg = [p \in Procs |-> Idle]
    /\ resp = NoResponse
    /\ records = {}
    /\ shop = SeededShop

\* the last request served on the shop's tables and its response
ShopResponse(op, kind, id, data, out) ==
    [op |-> op, req |-> [kind |-> kind, id |-> id, data |-> data],
     status |-> out.status, detail |-> out.detail, content |-> out.content]

\* GET /clients/{id}, /products/{id}, /categories/{id}, /rackets/{id}
GetRow(kind) ==
    \E id \in KindIds[kind] :
        LET out == get_row(kind, id, shop) IN
        /\ resp.op = ""
        /\ resp' = ShopResponse("get", kind, id, NoRow, out)
        /\ UNCHANGED <<shop, records, users, now, ticks, issued, reg>>

\* PUT /clients/{id}, /products/{id}, /categories/{id}, /rackets/{id}
UpdateRow(kind) ==
    \E id \in KindIds[kind], data \in UpdateBodies[kind] :
        LET out == update_row(kind, id, data, shop) IN
        /\ resp.op = ""
        /\ shop' = out.store
        /\ resp' = ShopResponse("update", kind, id, data, out)
        /\ UNCHANGED <<records, users, now, ticks, issued, reg>>

\* DELETE /clients/{id}, /products/{id}, /categories/{id}, /rackets/{id}
DeleteRow(kind) ==
    \E id \in KindIds[kind] :
        LET out == delete_row(kind, id, shop) IN
        /\ resp.op = ""
        /\ shop' = out.store
        /\ resp' = ShopResponse("delete", kind, id, NoRow, out)
        /\ UNCHANGED <<records, users, now, ticks, issued, reg>>

ShopSendResponse ==
    /\ resp.op # ""
    /\ resp' = NoResponse
    /\ UNCHANGED <<shop, records, users, now, ticks, issued, reg>>

NextShop ==
    \/ \E kind \in Kinds : GetRow(kind)
    \/ \E kind \in Kinds : UpdateRow(kind)
    \/ \E kind \in Kinds : DeleteRow(kind)
    \/ ShopSendResponse

SpecShop == InitShop /\ [][NextShop]_vars

(***************************************************************************)
(* app/routers: the create handlers, and maintenance records               *)
(***************************************************************************)
\* default=lambda: str(uuid.uuid4()): the ids new rows can get; an id is
\* never given twice
IdPools ==
    [clients |-> <<"cl-1", "cl-2">>, rackets |-> <<"rk-1", "rk-2", "rk-3">>,
     products |-> <<"pr-1">>,
     categories |-> <<"cat-1", "cat-2", "cat-3">>,
     records |-> <<"rec-1", "rec-2">>]

Unused(pool, used) == SelectSeq(pool, LAMBDA i : i \notin used)

UnusedIds(kind, store) == Unused(IdPools[kind], {r.id : r \in store[kind]})

UnusedRecordIds(table, store) ==
    Unused(IdPools.records, {r.id : r \in table} \cup store.deleted)

\* create_category; scalar_one_or_none() on line 86 raises
\* MultipleResultsFound when the query of lines 80-85 finds two rows
create_category(category_data, id, store) ==
    LET existing == {c \in store.categories :
                        \/ c.name = category_data.name
                        \/ c.slug = category_data.slug}
        new      == ProductCategory(id, category_data.name,
                                    category_data.slug)
    IN
    IF Cardinality(existing) > 1
      THEN Outcome(InternalServerError("").status, "MultipleResultsFound",
                   store, NoRow)
    ELSE IF existing # {}
      THEN Outcome(ConflictException("").status,
                   "Category with this name or slug already exists", store,
                   NoRow)
    ELSE Outcome(201, "", [store EXCEPT !.categories = @ \cup {new}], new)

\* lines 139-144 of create_product, 112-117 of create_racket
ReferenceMissingNever(rows, id) == FALSE

ReferenceMissing(rows, id) == \A r \in rows : r.id # id

create_product(product_data, id, store) ==
    LET new  == Product(id, product_data.category_id, product_data.name,
                        product_data.sku)
        rows == store.products \cup {new}
    IN
    IF ReferenceMissing(store.categories, product_data.category_id)
      THEN Outcome(NotFoundException("").status, "Category not found",
                   store, NoRow)
    ELSE IF IntegrityError("products", rows)
      THEN Outcome(InternalServerError("").status, "IntegrityError", store,
                   NoRow)
    ELSE Outcome(201, "", [store EXCEPT !.products = rows], new)

create_racket(racket_data, id, store) ==
    LET new == ClientRacket(id, racket_data.client_id,
                            racket_data.product_id, racket_data.brand)
    IN
    IF ReferenceMissing(store.clients, racket_data.client_id)
      THEN Outcome(NotFoundException("").status, "Client not found", store,
                   NoRow)
      ELSE Outcome(201, "", [store EXCEPT !.rackets = @ \cup {new}], new)

\* await db.commit(): what the session holds becomes part of the store
Commit(store, pending) ==
    [store EXCEPT !.clients = @ \cup pending.clients,
                  !.rackets = @ \cup pending.rackets]

RollbackCommitting(store, pending) == Commit(store, pending)

\* app/database.py lines 41-43: session.rollback() discards what the
\* session holds
Rollback(store, pending) == store

\* create_client_with_rackets; the statements sent to the store are the
\* INSERT of the client at the flush (1), the INSERT of racket k (1 + k) and
\* the COMMIT (n + 2) at db.commit(), and the SELECTs of the refreshes
\* (n + 3); fail_at is the statement the store fails at, 0 for none
create_client_with_rackets(client_data, client_id, racket_ids, store, fail_at) ==
    LET n           == Len(client_data.rackets)
        new_client  == Client(client_id, client_data.first_name,
                              client_data.email)
        new_rackets == [k \in 1..n |->
                          ClientRacket(racket_ids[k], new_client.id,
                                       client_data.rackets[k].product_id,
                                       client_data.rackets[k].brand)]
        sent(stmt)  == fail_at = 0 \/ fail_at > stmt
        pending     == [clients |-> IF sent(1) THEN {new_client} ELSE {},
                        rackets |-> {new_rackets[k] :
                                        k \in {j \in 1..n : sent(1 + j)}}]
        stored      == Commit(store, pending)
    IN
    IF fail_at = 1 \/ IntegrityError("clients", store.clients \cup {new_client})
      THEN Outcome(InternalServerError("").status, "flush failed",
                   Rollback(store, [pending EXCEPT !.clients = {}]), NoRow)
    ELSE IF fail_at \in 2..(n + 2)
      THEN Outcome(InternalServerError("").status, "commit failed",
                   Rollback(store, pending), NoRow)
    ELSE IF fail_at = n + 3
      THEN Outcome(InternalServerError("").status, "refresh failed", stored,
                   NoRow)
    ELSE Outcome(201, "", stored, new_client)

\* create_maintenance_record; table is maintenance_records
create_maintenance_record(record, id, utcnow, store, table) ==
    LET product_ids == SelectSeq([k \in 1..Len(ProductIdColumns) |->
                                    record[ProductIdColumns[k]]],
                                 LAMBDA pid : pid # None)
        new_record  == MaintenanceRecord(id, DEFAULT_USER_ID, record, utcnow)
    IN
    IF ReferenceMissing(store.rackets, record.client_racket_id)
      THEN Outcome(NotFoundException("").status, "Racket not found", table,
                   NoRecord)
    ELSE IF \E k \in 1..Len(product_ids) :
                ReferenceMissing(store.products, product_ids[k])
      THEN Outcome(NotFoundException("").status, "Product not found", table,
                   NoRecord)
    ELSE Outcome(201, "", table \cup {new_record}, new_record)

get_maintenance_record(record_id, table) ==
    LET found == {r \in table : r.id = record_id} IN
    IF found = {}
      THEN Outcome(NotFoundException("").status,
                   "Maintenance record not found", table, NoRecord)
      ELSE Outcome(200, "", table, One(found))

delete_maintenance_record_all(record_id, table) ==
    LET found == {r \in table : r.id = record_id} IN
    IF found = {}
      THEN Outcome(NotFoundException("").status,
                   "Maintenance record not found", table, NoRecord)
      ELSE Outcome(204, "", {}, NoRecord)

\* delete_maintenance_record; its parameters are record_id and db only
delete_maintenance_record(record_id, table) ==
    LET found == {r \in table : r.id = record_id} IN
    IF found = {}
      THEN Outcome(NotFoundException("").status,
                   "Maintenance record not found", table, NoRecord)
      ELSE Outcome(204, "", table \ found, NoRecord)

\* ORDER BY service_date DESC: the rows by falling service_date; rows of
\* the same service_date come in an order the store chooses, tiebreak
\* (a sequence of ids) standing for that choice
RECURSIVE OrderByServiceDateDesc(_, _)
OrderByServiceDateDesc(rows, tiebreak) ==
    LET pos(id) == CHOOSE i \in 1..Len(tiebreak) : tiebreak[i] = id
        before(r, q) == \/ r.service_date > q.service_date
                        \/ /\ r.service_date = q.service_date
                           /\ pos(r.id) < pos(q.id)
        first == CHOOSE r \in rows : \A q \in rows \ {r} : before(r, q)
    IN  IF rows = {} THEN <<>>
        ELSE <<first>> \o OrderByServiceDateDesc(rows \ {first}, tiebreak)

\* every order the store can choose among the rows with these ids
Tiebreaks(ids) ==
    {s \in [1..Cardinality(ids) -> ids] :
        \A i, j \in DOMAIN s : s[i] = s[j] => i = j}

\* get_racket_history of app/routers/client_rackets.py
get_racket_history(racket_id, store, table, tiebreak) ==
    LET rows    == {r \in table : r.client_racket_id = racket_id}
        ordered == OrderByServiceDateDesc(rows, tiebreak)
    IN
    IF ReferenceMissing(store.rackets, racket_id)
      THEN Outcome(NotFoundException("").status, "Racket not found", store,
                   <<>>)
      ELSE Outcome(200, "", store,
                   [i \in 1..Len(ordered) |->
                      [id |-> ordered[i].id,
                       service_date |-> ordered[i].service_date,
                       service_type |-> ordered[i].service_type,
                       service_cost |-> ordered[i].service_cost,
                       notes |-> ordered[i].notes]])

\* PaginatedResponse.create of app/utils/pagination.py
PaginatedResponseCreateFloor(items, total, page, limit) ==
    [items |-> items, total |-> total, page |-> page, limit |-> limit,
     total_pages |-> total \div limit]

PaginatedResponseCreate(items, total, page, limit) ==
    [items |-> items, total |-> total, page |-> page, limit |-> limit,
     total_pages |-> (total + limit - 1) \div limit]

NoPage ==
    [items |-> <<>>, total |-> 0, page |-> 0, limit |-> 0, total_pages |-> 0]

\* the query parameters of list_maintenance_records; a filter that was
\* not given is None, or negative for a date
NoFilters ==
    [client_racket_id |-> None, service_type |-> None, date_from |-> -1,
     date_to |-> -1]

\* list_maintenance_records; page and limit are validated by
\* Query(1, ge=1) and Query(20, ge=1, le=100)
list_maintenance_records(filters, page, limit, table, tiebreak) ==
    LET matching ==
            {r \in table :
                /\ filters.client_racket_id # None =>
                     r.client_racket_id = filters.client_racket_id
                /\ filters.service_type # None =>
                     r.service_type = filters.service_type
                /\ filters.date_from >= 0 =>
                     r.service_date >= filters.date_from
                /\ filters.date_to >= 0 =>
                     r.service_date <= filters.date_to}
        total   == Cardinality(matching)
        offset  == (page - 1) * limit
        ordered == OrderByServiceDateDesc(matching, tiebreak)
        last    == IF offset + limit < total THEN offset + limit ELSE total
        items   == SubSeq(ordered, offset + 1, last)
    IN
    IF page < 1 \/ limit < 1 \/ limit > 100
      THEN Outcome(422, "validation error", table, NoPage)
      ELSE Outcome(200, "", table,
                   PaginatedResponseCreate(items, total, page, limit))

(***************************************************************************)
(* The shop served one request at a time, from an empty store with an      *)
(* admin and a staff user                                                  *)
(***************************************************************************)
StaffUsers ==
    {User("uuid-1", "alice@x.com", "alice",
          get_password_hash("secret123", "salt-1"), "", "", Unset, "admin"),
     User("uuid-2", "bob@x.com", "bob",
          get_password_hash("hunter2222", "salt-2"), "", "", Unset, "staff")}

InitService ==
    /\ users = StaffUsers
    /\ now = 0
    /\ ticks = 0
    /\ issued = {}
    /\ reg = [p \in Procs |-> Idle]
    /\ resp = NoResponse
    /\ records = {}
    /\ shop = NoShop

\* POST /categories/
CreateCategory ==
    \E category_data \in {[name |-> "Strings", slug |-> "strings"],
                          [name |-> "Grips", slug |-> "grips"],
                          [name |-> "Strings", slug |-> "grips"]} :
        LET ids == UnusedIds("categories", shop)
            out == create_category(category_data, ids[1], shop)
        IN
        /\ resp.op = ""
        /\ ids # <<>>
        /\ shop' = out.store
        /\ resp' = ShopResponse("create", "categories", "", category_data, out)
        /\ UNCHANGED <<records, users, now, ticks, issued, reg>>

\* POST /products/
CreateProduct ==
    \E category_id \in {"cat-1", "cat-9"} :
        LET product_data == [category_id |-> category_id,
                             name |-> "RPM Blast", sku |-> None]
            ids == UnusedIds("products", shop)
            out == create_product(product_data, ids[1], shop)
        IN
        /\ resp.op = ""
        /\ ids # <<>>
        /\ shop' = out.store
        /\ resp' = ShopResponse("create", "products", "", product_data, out)
        /\ UNCHANGED <<records, users, now, ticks, issued, reg>>

\* POST /rackets/
CreateRacket ==
    \E client_id \in {"cl-1", "cl-9"} :
        LET racket_data == [client_id |-> client_id, product_id |-> None,
                            brand |-> "Wilson"]
            ids == UnusedIds("rackets", shop)
            out == create_racket(racket_data, ids[1], shop)
        IN
        /\ resp.op = ""
        /\ ids # <<>>
        /\ shop' = out.store
        /\ resp' = ShopResponse("create", "rackets", "", racket_data, out)
        /\ UNCHANGED <<records, users, now, ticks, issued, reg>>

\* the racket lists of the bodies of POST /clients/with-rackets
RacketLists ==
    {<<>>, <<[brand |-> "Wilson", product_id |-> None]>>,
     <<[brand |-> "Wilson", product_id |-> None],
       [brand |-> "Head", product_id |-> None]>>}

\* POST /clients/with-rackets; the store completes every statement, or
\* fails at one of them
CreateClientWithRackets ==
    \E rackets \in RacketLists :
      \E fail_at \in 0..(Len(rackets) + 3) :
        LET client_data == [first_name |-> "Roger", email |-> "roger@x.com",
                            rackets |-> rackets, fail_at |-> fail_at]
            ids  == UnusedIds("clients", shop)
            rids == UnusedIds("rackets", shop)
            out  == create_client_with_rackets(client_data, ids[1], rids,
                                               shop, fail_at)
        IN
        /\ resp.op = ""
        /\ ids # <<>>
        /\ Len(rids) >= Len(rackets)
        /\ shop' = out.store
        /\ resp' = ShopResponse("create", "clients", ids[1], client_data, out)
        /\ UNCHANGED <<records, users, now, ticks, issued, reg>>

\* the bodies of POST /maintenance/
MaintenanceBodies ==
    {MaintenanceRecordCreate(racket, -1, "stringing", 25, "", product_ids) :
        racket \in {"rk-1", "rk-9"},
        product_ids \in {NoProducts,
                         <<"pr-1", None, None, None, None>>,
                         <<"pr-1", None, None, None, "pr-9">>,
                         <<None, "pr-9", None, None, None>>}}

\* POST /maintenance/
CreateMaintenance ==
    \E record \in MaintenanceBodies :
        LET ids == UnusedRecordIds(records, shop)
            out == create_maintenance_record(record, ids[1], now, shop,
                                             records)
        IN
        /\ resp.op = ""
        /\ ids # <<>>
        /\ records' = out.store
        /\ resp' = ShopResponse("create", "records", "", record, out)
        /\ UNCHANGED <<shop, users, now, ticks, issued, reg>>

\* GET /maintenance/{record_id}
GetMaintenance ==
    \E record_id \in RecordIds :
        LET out == get_maintenance_record(record_id, records) IN
        /\ resp.op = ""
        /\ resp' = ShopResponse("get", "records", record_id, NoRow, out)
        /\ UNCHANGED <<shop, records, users, now, ticks, issued, reg>>

\* the Authorization headers DELETE /maintenance/{record_id} is sent with:
\* none, and the access token of each user
ServiceHeaders(t) ==
    {NoHeader}
    \cup {HeaderOf(<<BEARER, create_access_token(u.id, t)>>) : u \in users}

\* DELETE /maintenance/{record_id}; the ids of removed records are kept
\* since no new record gets one of them
DeleteMaintenance ==
    \E record_id \in RecordIds, authorization \in ServiceHeaders(now) :
        LET out == delete_maintenance_record(record_id, records) IN
        /\ resp.op = ""
        /\ records' = out.store
        /\ shop' = [shop EXCEPT !.deleted = @ \cup
                        {r.id : r \in records \ out.store}]
        /\ resp' = ShopResponse("delete", "records", record_id,
                                [authorization |-> authorization], out)
        /\ UNCHANGED <<users, now, ticks, issued, reg>>

NextService ==
    \/ CreateCategory
    \/ CreateProduct
    \/ CreateRacket
    \/ CreateClientWithRackets
    \/ CreateMaintenance
    \/ GetMaintenance
    \/ DeleteMaintenance
    \/ UpdateRow("products")
    \/ DeleteRow("rackets")
    \/ ShopSendResponse

SpecService == InitService /\ [][NextService]_vars

(***************************************************************************)
(* The list endpoints of maintenance records, on a store that holds some   *)
(* records                                                                 *)
(***************************************************************************)
PageIds == <<"rec-1", "rec-2", "rec-3", "rec-4", "rec-5", "rec-6">>

\* the records of the store to list: of two rackets and two service types,
\* some of them with the same service_date
PageRows ==
    {MaintenanceRecord(PageIds[i], DEFAULT_USER_ID,
        MaintenanceRecordCreate(IF i = 4 THEN "rk-2" ELSE "rk-1",
                                1 + (i % 2),
                                IF i <= 2 THEN "stringing" ELSE "repair",
                                25, "", NoProducts),
        0) : i \in 1..MaxRows}

InitPage ==
    /\ users = {}
    /\ now = 0
    /\ ticks = 0
    /\ issued = {}
    /\ reg = [p \in Procs |-> Idle]
    /\ resp = NoResponse
    /\ records \in SUBSET PageRows
    /\ shop = [SeededShop EXCEPT !.rackets =
                  @ \cup {ClientRacket("rk-2", "cl-1", None, "Head")}]

\* the query parameters GET /maintenance/ is sent with
PageFilters ==
    {NoFilters,
     [NoFilters EXCEPT !.service_type = "stringing"],
     [NoFilters EXCEPT !.client_racket_id = "rk-1", !.date_to = 1],
     [NoFilters EXCEPT !.date_from = 2]}

PageLimits == {0, 1, 2, 3, 100, 101}

\* GET /maintenance/
ListMaintenance ==
    \E tiebreak \in Tiebreaks({r.id : r \in records}) :
      \E filters \in PageFilters, page \in 0..MaxPage, limit \in PageLimits :
        LET out == list_maintenance_records(filters, page, limit, records,
                                            tiebreak)
        IN
        /\ resp.op = ""
        /\ resp' = ShopResponse("list", "records", "",
                                [filters |-> filters, page |-> page,
                                 limit |-> limit],
                                out)
        /\ UNCHANGED <<shop, records, users, now, ticks, issued, reg>>

\* GET /rackets/{racket_id}/history
RacketHistory ==
    \E racket_id \in {"rk-1", "rk-2", "rk-9"} :
      \E tiebreak \in Tiebreaks({r.id : r \in records}) :
        LET out == get_racket_history(racket_id, shop, records, tiebreak) IN
        /\ resp.op = ""
        /\ resp' = ShopResponse("history", "rackets", racket_id, NoRow, out)
        /\ UNCHANGED <<shop, records, users, now, ticks, issued, reg>>

NextPage ==
    \/ ListMaintenance
    \/ RacketHistory
    \/ GetMaintenance
    \/ ShopSendResponse

SpecPage == InitPage /\ [][NextPage]_vars

(***************************************************************************)
(* Properties                                                              *)
(***************************************************************************)
Jwts(str) == {i \in 1..Len(str) : str[i].kind = "jwt"}

\* the user rows a token's subject names that are active
ActiveById(sub) == {u \in users : u.id = sub /\ u.is_active}

\* a token text that is one JWT, signed with the secret key, carrying an
\* expiry that has not passed
Decodes(str) ==
    /\ Len(str) = 1
    /\ str[1].kind = "jwt"
    /\ str[1].sig = "ok"
    /\ str[1].hasexp
    /\ now <= str[1].exp

\* the credential of a header "Bearer <token>": the text after the scheme
Credential(authorization) == Tail(authorization.value)

\* C1: the gate returns a principal only when the header is present and
\* starts with "Bearer ", the token after the scheme decodes, its type is
\* access, its sub is a well-formed UUID and names an active user, and the
\* principal is that user; every other request is answered 401 and yields no
\* principal.
C1_GateClaim ==
    resp.op = "me" =>
        LET h  == resp.req.auth
            ok == /\ h.present
                  /\ StartsWithBearer(h.value)
                  /\ Decodes(Credential(h))
                  /\ Credential(h)[1].type = "access"
                  /\ Credential(h)[1].sub # NoSub
                  /\ IsUUID(Credential(h)[1].sub)
                  /\ ActiveById(Credential(h)[1].sub) # {}
        IN  /\ resp.status = 200 <=> ok
            /\ resp.status = 200 => resp.user = Credential(h)[1].sub
            /\ resp.status # 200 => resp.status = 401 /\ resp.user = ""

\* C2: the gate answers 401 to every request whose token has type refresh,
\* and refresh answers 401 to every token of type access, also when the token
\* is well signed, unexpired and names an active user.
C2_NotInterchangeable ==
    /\ resp.op \in {"me", "admin"} =>
         LET str == resp.req.auth.value IN
         (Jwts(str) # {} /\ \A i \in Jwts(str) : str[i].type = "refresh")
            => resp.status = 401
    /\ resp.op = "refresh" =>
         LET str == resp.req.body IN
         (Jwts(str) # {} /\ \A i \in Jwts(str) : str[i].type = "access")
            => resp.status = 401
    /\ Ready =>
         \A k \in Tokens(now) :
            /\ k.type = "refresh" =>
                 \A str \in {<<k>>, <<BEARER, k>>, <<BEARER, BEARER, k>>} :
                    /\ get_current_user(HeaderOf(str), now, users).status = 401
                    /\ require_admin(get_current_user(HeaderOf(str), now,
                                                      users)).status = 401
            /\ k.type = "access" =>
                 refresh_access_token(<<k>>, now, users).status = 401

\* an otherwise valid refresh token was presented to the gate, and an
\* otherwise valid access token to refresh
C2_Witness ==
    \E i \in issued :
        /\ now <= i.tok.exp
        /\ ActiveById(i.tok.sub) # {}
        /\ \/ /\ i.field = "refresh_token"
              /\ resp.op = "me"
              /\ resp.req.auth = HeaderOf(<<BEARER, i.tok>>)
              /\ resp.status = 401
           \/ /\ i.field = "access_token"
              /\ resp.op = "refresh"
              /\ resp.req.body = <<i.tok>>
              /\ resp.status = 401

\* C3: login answers 401 when no user has the username, when the password
\* does not verify against the stored hash, or when the user is inactive;
\* otherwise 200 with an access and a refresh token whose subject is the
\* user's id.
LoginExpected(credentials, out) ==
    LET found == {u \in users : u.username = credentials.username} IN
    IF \/ found = {}
       \/ \E u \in found :
            \/ ~verify_password(credentials.password, u.hashed_password)
            \/ ~u.is_active
      THEN out.status = 401 /\ out.user = ""
           /\ out.access_token = NoToken /\ out.refresh_token = NoToken
      ELSE \E u \in found :
            /\ out.status = 200
            /\ out.user = u.id
            /\ out.access_token.kind = "jwt"
            /\ out.access_token.sub = u.id
            /\ out.access_token.type = "access"
            /\ out.refresh_token.kind = "jwt"
            /\ out.refresh_token.sub = u.id
            /\ out.refresh_token.type = "refresh"

C3_Login ==
    /\ resp.op = "login" => LoginExpected(resp.req.form, resp)
    /\ Ready => \A c \in UserLogin : LoginExpected(c, login(c, now, users))

\* a login with the correct password of an inactive user was refused
C3_Witness ==
    /\ resp.op = "login"
    /\ resp.status = 401
    /\ \E u \in users :
        /\ u.username = resp.req.form.username
        /\ verify_password(resp.req.form.password, u.hashed_password)
        /\ ~u.is_active

\* C4: refresh answers 401 when the token is malformed, badly signed,
\* expired, not of type refresh, without subject, or names no active user;
\* otherwise 200 with a new access and refresh token whose subject is the
\* subject of the token presented.
RefreshExpected(str, out) ==
    IF /\ Decodes(str)
       /\ str[1].type = "refresh"
       /\ str[1].sub # NoSub
       /\ ActiveById(str[1].sub) # {}
      THEN /\ out.status = 200
           /\ out.user = str[1].sub
           /\ out.access_token =
                Jwt("ok", str[1].sub, TRUE, now + AccessTTL, "access")
           /\ out.refresh_token =
                Jwt("ok", str[1].sub, TRUE, now + RefreshTTL, "refresh")
      ELSE out.status = 401 /\ out.user = ""
           /\ out.access_token = NoToken /\ out.refresh_token = NoToken

C4_Refresh ==
    /\ resp.op = "refresh" => RefreshExpected(resp.req.body, resp)
    /\ Ready => \A str \in TokenStrings(now) :
         RefreshExpected(str, refresh_access_token(str, now, users))

\* a refresh token handed out earlier was exchanged for a new pair
C4_Witness ==
    /\ resp.op = "refresh"
    /\ resp.status = 200
    /\ \E i \in issued :
        /\ resp.req.body = <<i.tok>>
        /\ i.iat < now
        /\ resp.refresh_token # i.tok
        /\ resp.refresh_token.sub = i.tok.sub

\* C5: two Register requests with the same username end with one 201 and
\* one 409 under every interleaving: no request that finished ends otherwise,
\* and both are never created.
C5_OneSuccessOneConflict ==
    \A p, q \in Procs :
        (/\ p # q
         /\ reg[p].pc = "done"
         /\ reg[q].pc = "done"
         /\ reg[p].data.username = reg[q].data.username)
        => /\ {reg[p].status, reg[q].status} \subseteq {201, 409}
           /\ ~(reg[p].status = 201 /\ reg[q].status = 201)

\* C6: a Register request whose username is present is answered 409 with
\* the username detail, also when its email is present too; one whose email
\* alone is present is answered 409 with the email detail; a request
\* answered 409 leaves the users table as it was.
C6_RegisterConflicts ==
    [][(resp'.op = "register" /\ resp.op = "") =>
        LET d         == resp'.req.form
            nameTaken == \E u \in users : u.username = d.username
            mailTaken == \E u \in users : u.email = d.email
        IN  /\ nameTaken =>
                 /\ resp'.status = 409
                 /\ resp'.detail = "Username already registered"
            /\ (~nameTaken /\ mailTaken) =>
                 /\ resp'.status = 409
                 /\ resp'.detail = "Email already registered"
            /\ resp'.status = 409 => (users' = users /\ (nameTaken \/ mailTaken))
            /\ (~nameTaken /\ ~mailTaken) => resp'.status = 201
      ]_vars

\* a sign-up whose username and email are both present was refused
C6_Witness ==
    /\ resp.op = "register"
    /\ resp.status = 409
    /\ resp.detail = "Username already registered"
    /\ \E u, v \in users :
        /\ u.username = resp.req.form.username
        /\ v.email = resp.req.form.email

\* C7: no two distinct user rows share an email or a username.
C7_UniqueUsers ==
    \A u, v \in users :
        (u.email = v.email \/ u.username = v.username) => u = v

\* two rows are stored, one of them inactive, and the store refused a
\* request that had passed both existence checks
C7_Witness ==
    /\ Cardinality(users) = 2
    /\ \E u \in users : ~u.is_active
    /\ \E p \in Procs : reg[p].pc = "done" /\ reg[p].status = 500

\* C8: a request to an admin-only endpoint is answered 401 whenever the gate
\* fails, 403 when the gate resolves a principal whose role is not admin, and
\* reaches the handler with that principal when the role is admin.
AdminExpected(authorization, out) ==
    LET g == get_current_user(authorization, now, users) IN
    IF g.status # 200 THEN out.status = 401 /\ out.user = ""
    ELSE \E u \in users :
        /\ u.id = g.user
        /\ IF u.role = "admin"
             THEN out.status = 200 /\ out.user = u.id
             ELSE out.status = 403 /\ out.user = ""

C8_RequireAdmin ==
    /\ resp.op = "admin" => AdminExpected(resp.req.auth, resp)
    /\ Ready => \A h \in Headers(now) :
         AdminExpected(h, require_admin(get_current_user(h, now, users)))

\* a staff principal was refused with 403
C8_Witness ==
    /\ resp.op = "admin"
    /\ resp.status = 403
    /\ \E u \in users, i \in issued :
        /\ u.role = "staff"
        /\ u.is_active
        /\ i.tok.sub = u.id
        /\ resp.req.auth = HeaderOf(<<BEARER, i.tok>>)

\* C9: a token handed out at time iat with time-to-live ttl decodes at every
\* time up to iat + ttl and at no later time; once past, the gate and refresh
\* answer 401 to it, and its expiry is iat + ttl for good.
TTLOf(i) == IF i.field = "access_token" THEN AccessTTL ELSE RefreshTTL

C9_Expiry ==
    \A i \in issued :
        /\ i.tok.exp = i.iat + TTLOf(i)
        /\ decode_token(<<i.tok>>, now).ok <=> now <= i.iat + TTLOf(i)
        /\ now > i.iat + TTLOf(i) =>
             /\ get_current_user(HeaderOf(<<BEARER, i.tok>>), now,
                                 users).status = 401
             /\ refresh_access_token(<<i.tok>>, now, users).status = 401
             /\ (resp.op \in {"me", "admin"}
                 /\ resp.req.auth = HeaderOf(<<BEARER, i.tok>>))
                  => resp.status = 401
             /\ (resp.op = "refresh" /\ resp.req.body = <<i.tok>>)
                  => resp.status = 401

\* the refresh token of an active user was refused after its expiry
C9_Witness ==
    /\ resp.op = "refresh"
    /\ resp.status = 401
    /\ \E i \in issued :
        /\ i.field = "refresh_token"
        /\ resp.req.body = <<i.tok>>
        /\ now > i.iat + RefreshTTL
        /\ ActiveById(i.user) # {}

\* C10: every refresh token handed out that has not expired and whose user
\* is present and active is accepted by refresh, whatever was handed out
\* since.
C10_RefreshTokenSurvives ==
    \A i \in issued :
        (/\ i.field = "refresh_token"
         /\ now <= i.iat + RefreshTTL
         /\ ActiveById(i.user) # {})
        => /\ refresh_access_token(<<i.tok>>, now, users).status = 200
           /\ (resp.op = "refresh" /\ resp.req.body = <<i.tok>>)
                => resp.status = 200

\* a refresh token was accepted although a newer pair had been handed out
\* to its user in the meantime
C10_Witness ==
    /\ resp.op = "refresh"
    /\ resp.status = 200
    /\ \E i, j \in issued :
        /\ i.field = "refresh_token"
        /\ resp.req.body = <<i.tok>>
        /\ j.user = i.user
        /\ j.field = "refresh_token"
        /\ i.iat < j.iat
        /\ j.iat < now

\* C11: a token handed out earlier is refused with 401 by the gate and by
\* refresh, although unexpired, once its user's row is inactive or absent;
\* and an admin-only endpoint answers by the role the row carries at the
\* time of the request, whatever the role was when the token was handed out.
C11_LiveRecord ==
    \A i \in issued :
        LET h   == HeaderOf(<<BEARER, i.tok>>)
            row == {u \in users : u.id = i.user}
        IN
        /\ (now <= i.tok.exp /\ ActiveById(i.user) = {}) =>
             /\ get_current_user(h, now, users).status = 401
             /\ refresh_access_token(<<i.tok>>, now, users).status = 401
             /\ (resp.op \in {"me", "admin"} /\ resp.req.auth = h)
                  => resp.status = 401
             /\ (resp.op = "refresh" /\ resp.req.body = <<i.tok>>)
                  => resp.status = 401
        /\ (/\ i.field = "access_token"
            /\ now <= i.tok.exp
            /\ ActiveById(i.user) # {}) =>
             \A u \in row :
                LET expected == IF u.role = "admin" THEN 200 ELSE 403 IN
                /\ require_admin(get_current_user(h, now, users)).status
                     = expected
                /\ (resp.op = "admin" /\ resp.req.auth = h)
                     => resp.status = expected

\* an access token handed out to an admin was refused with 403 after the
\* role of its user was changed, while a token of a removed user is
\* remembered
C11_Witness ==
    /\ resp.op = "admin"
    /\ resp.status = 403
    /\ \E i \in issued :
        /\ i.field = "access_token"
        /\ i.role = "admin"
        /\ resp.req.auth = HeaderOf(<<BEARER, i.tok>>)
        /\ ActiveById(i.user) # {}
    /\ \E j \in issued : \A u \in users : u.id # j.user

\* C12: once a sign-up with username u and password p is answered 201, a
\* login with u and p is answered 200 with two different tokens, neither
\* empty; the gate answers the access token with the user named u and the
\* refresh token with 401.
RoundTrip(username, out) ==
    LET me      == get_current_user(HeaderOf(<<BEARER, out.access_token>>),
                                    now, users)
        refused == get_current_user(HeaderOf(<<BEARER, out.refresh_token>>),
                                    now, users)
    IN  /\ out.status = 200
        /\ out.access_token # NoToken
        /\ out.refresh_token # NoToken
        /\ out.access_token # out.refresh_token
        /\ me.status = 200
        /\ \E u \in users : u.id = me.user /\ u.username = username
        /\ refused.status = 401

C12_RoundTrip ==
    /\ (resp.op = "register" /\ resp.status = 201) =>
         RoundTrip(resp.req.form.username,
                   login(resp.req.form, now, users))
    /\ (resp.op = "login" /\ resp.status = 200) =>
         RoundTrip(resp.req.form.username, resp)
    /\ resp.op = "me" =>
         \A i \in issued :
            (/\ resp.req.auth = HeaderOf(<<BEARER, i.tok>>)
             /\ i.iat = now
             /\ ActiveById(i.user) # {}) =>
                IF i.field = "access_token"
                  THEN resp.status = 200 /\ resp.user = i.user
                  ELSE resp.status = 401

\* the access token of a login was presented to GET /auth/me at once and
\* the user who signed up was returned
C12_Witness ==
    /\ resp.op = "me"
    /\ resp.status = 200
    /\ \E i \in issued, u \in users :
        /\ i.field = "access_token"
        /\ i.iat = now
        /\ resp.req.auth = HeaderOf(<<BEARER, i.tok>>)
        /\ u.id = resp.user
        /\ u.username = "bob"

\* C13: a sign-up answered 201 adds exactly one row; the row carries the
\* email, username and names of the request, a digest of the password and
\* no password, is_active true, and the role asked for, or staff when none
\* was; the response body is the public view of that row, with neither a
\* password nor a hash in it.  A sign-up answered otherwise adds no row.
Registered(d, table, after, status, content) ==
    IF status = 201
      THEN \E row \in after :
             /\ row \notin table
             /\ after = table \cup {row}
             /\ Cardinality(after) = Cardinality(table) + 1
             /\ row.email = d.email
             /\ row.username = d.username
             /\ row.first_name = d.first_name
             /\ row.last_name = d.last_name
             /\ "password" \notin DOMAIN row
             /\ row.hashed_password.alg = "bcrypt"
             /\ verify_password(d.password, row.hashed_password)
             /\ \A other \in Passwords \ {d.password} :
                    ~verify_password(other, row.hashed_password)
             /\ row.is_active
             /\ row.role = (IF d.role = Unset THEN "staff" ELSE d.role)
             /\ {"password", "hashed_password"} \cap DOMAIN content = {}
             /\ \A f \in DOMAIN content : content[f] = row[f]
             /\ {"id", "email", "username", "first_name", "last_name",
                 "role", "is_active"} \subseteq DOMAIN content
      ELSE after = table

C13_RegisterRow ==
    [][/\ (resp.op = "" /\ resp'.op = "register") =>
            Registered(resp'.req.form, users, users', resp'.status,
                       resp'.content)
       /\ (Ready /\ resp'.op = "register") =>
            \A d \in UserCreate, id \in NextIds(users),
               salt \in FreshSalts(users) :
                LET out == register(d, users, id, salt) IN
                Registered(d, users, out.table, out.status, out.content)
      ]_vars

\* a sign-up that named no role was answered 201 and its row is staff
C13_Witness ==
    /\ resp.op = "register"
    /\ resp.status = 201
    /\ resp.req.form.role = Unset
    /\ resp.content.role = "staff"
    /\ \E u \in users : u.id = resp.user /\ u.role = "staff" /\ u.is_active

\* C14: every access token handed out is accepted by the gate, and every
\* refresh token handed out is accepted by refresh, while it is unexpired
\* and its user is active, however many pairs were handed out to that user
\* before or since.
C14_PairsCoexist ==
    \A i \in issued :
        (now <= i.tok.exp /\ ActiveById(i.user) # {}) =>
            IF i.field = "access_token"
              THEN LET h == HeaderOf(<<BEARER, i.tok>>) IN
                   /\ get_current_user(h, now, users).status = 200
                   /\ get_current_user(h, now, users).user = i.user
                   /\ (resp.op = "me" /\ resp.req.auth = h)
                        => (resp.status = 200 /\ resp.user = i.user)
              ELSE /\ refresh_access_token(<<i.tok>>, now, users).status = 200
                   /\ refresh_access_token(<<i.tok>>, now, users).user = i.user
                   /\ (resp.op = "refresh" /\ resp.req.body = <<i.tok>>)
                        => (resp.status = 200 /\ resp.user = i.user)

\* two pairs handed out to one user at different times are remembered, and
\* the access token of the older pair was accepted by the gate after the
\* newer pair had been handed out
C14_Witness ==
    /\ resp.op = "me"
    /\ resp.status = 200
    /\ \E i, j \in issued :
        /\ i.field = "access_token"
        /\ j.field = "access_token"
        /\ resp.req.auth = HeaderOf(<<BEARER, i.tok>>)
        /\ j.user = i.user
        /\ i.iat < j.iat
        /\ \E k \in issued : k.field = "refresh_token" /\ k.iat = i.iat
                             /\ k.user = i.user /\ now <= k.tok.exp

\* C15: in a pair handed out together the access token expires 480 minutes
\* and the refresh token 30 days after issue, the access token strictly
\* first; as time passes the pair is authenticated (both decode), then
\* access-expired (only the refresh token decodes), then expired (neither
\* decodes), never going back, and at no time does the access token decode
\* while the refresh token does not.
Pairs ==
    {p \in issued \X issued :
        /\ p[1].field = "access_token"
        /\ p[2].field = "refresh_token"
        /\ p[1].user = p[2].user
        /\ p[1].iat = p[2].iat}

SessionState(p, t) ==
    LET a == decode_token(<<p[1].tok>>, t).ok
        r == decode_token(<<p[2].tok>>, t).ok
    IN  IF a /\ r THEN 1
        ELSE IF ~a /\ r THEN 2
        ELSE IF ~a /\ ~r THEN 3
        ELSE 0

C15_SessionOrder ==
    [][\A p \in Pairs :
        /\ p[1].tok.exp = p[1].iat + 480
        /\ p[2].tok.exp = p[2].iat + 30 * 24 * 60
        /\ p[1].tok.exp < p[2].tok.exp
        /\ SessionState(p, now) \in {1, 2, 3}
        /\ SessionState(p, now') \in {1, 2, 3}
        /\ SessionState(p, now') >= SessionState(p, now)
        /\ (p[1].iat = now) => SessionState(p, now) = 1
      ]_vars

\* a pair handed out at the start went through access-expired and is now
\* expired: its refresh token was refused after two advances of the clock
C15_Witness ==
    /\ resp.op = "refresh"
    /\ resp.status = 401
    /\ ticks = 2
    /\ \E p \in Pairs :
        /\ p[1].iat = 0
        /\ resp.req.body = <<p[2].tok>>
        /\ SessionState(p, now) = 3
        /\ ActiveById(p[2].user) # {}

\* C16: a request whose handling ended in an error has persisted none of
\* its writes, wherever the error was raised, also after the handler's own
\* commit.
C16_NoWritesOnError ==
    \A p \in Procs :
        (reg[p].pc \in {"finally", "done"} /\ reg[p].status # 201)
            => \A u \in users : u.id # reg[p].wrote

\* C17: no request ends with its session open, and every session opened is
\* eventually closed, whether the handler returned, raised, or the final
\* commit or the rollback failed.
C17_SessionClosed ==
    \A p \in Procs :
        /\ [](reg[p].pc \in {"idle", "done"} => reg[p].session # "open")
        /\ (reg[p].session = "open") ~> (reg[p].session = "closed")

\* a request whose rollback failed has ended with its session closed
C17_Witness ==
    \E p \in Procs :
        /\ reg[p].pc = "done"
        /\ reg[p].detail = "rollback failed"
        /\ reg[p].session = "closed"

\* C18: the five kinds of failure have the statuses NotFound 404,
\* Unauthorized 401, Forbidden 403, BadRequest 400, Conflict 409, all
\* different; every request that fails ends with one of them, and a sign-up
\* the store refuses for uniqueness ends with 409.
KindStatus ==
    [NotFound     |-> NotFoundException("").status,
     Unauthorized |-> UnauthorizedException("").status,
     Forbidden    |-> ForbiddenException("").status,
     BadRequest   |-> BadRequestException("").status,
     Conflict     |-> ConflictException("").status]

C18_StableKinds ==
    /\ KindStatus = [NotFound |-> 404, Unauthorized |-> 401,
                     Forbidden |-> 403, BadRequest |-> 400, Conflict |-> 409]
    /\ \A j, k \in DOMAIN KindStatus :
            KindStatus[j] = KindStatus[k] => j = k
    /\ \A p \in Procs :
        (reg[p].pc = "done" /\ reg[p].status # 201) =>
            /\ \E k \in DOMAIN KindStatus : reg[p].status = KindStatus[k]
            /\ (\E u \in users : \/ u.username = reg[p].data.username
                                 \/ u.email = reg[p].data.email)
                 => reg[p].status = KindStatus.Conflict

C20_UpdateProvidedFields ==
    [][(resp.op = "" /\ resp'.op = "update_maintenance") =>
        LET id    == resp'.req.record_id
            body  == resp'.req.record
            found == {r \in records : r.id = id}
        IN
        IF found = {}
          THEN resp'.status = 404 /\ records' = records
          ELSE \E old \in found, new \in records' :
                /\ resp'.status = 200
                /\ records' = (records \ {old}) \cup {new}
                /\ new.id = old.id
                /\ \A f \in RecordFields :
                     new[f] = IF f \in body.fields_set THEN body[f]
                              ELSE old[f]
                /\ resp'.content = new
      ]_vars

\* C22: an update of an existing client, product, category or racket sets
\* every field the body names to the value given and keeps every other
\* field, and changes no other row of any table; an update of an unknown id
\* is answered 404 and changes nothing.
C22_UpdateOnlyProvided ==
    [][(resp.op = "" /\ resp'.op = "update") =>
        LET kind  == resp'.req.kind
            data  == resp'.req.data
            found == {r \in shop[kind] : r.id = resp'.req.id}
        IN
        /\ records' = records
        /\ users' = users
        /\ \A k \in Kinds \ {kind} : shop'[k] = shop[k]
        /\ IF found = {}
             THEN resp'.status = 404 /\ shop' = shop
             ELSE \E old \in found, new \in shop'[kind] :
                    /\ resp'.status = 200
                    /\ shop'[kind] = (shop[kind] \ {old}) \cup {new}
                    /\ \A f \in DOMAIN old :
                         new[f] = IF f \in data.fields_set THEN data[f]
                                  ELSE old[f]
      ]_vars

C21_DeleteAdminOnly ==
    [][(/\ resp.op = ""
        /\ resp'.op = "delete"
        /\ resp'.req.kind = "records"
        /\ records' # records) =>
          LET principal == require_admin(
                  get_current_user(resp'.req.data.authorization, now, users))
          IN  principal.status = 200 /\ principal.role = "admin"
      ]_vars

\* C24: a call of create_client_with_rackets either stores the new client
\* and one racket for every racket of the body, each with the client_id of
\* the new client, or stores nothing; when the store fails at the insert of
\* the client or of any racket, or at the commit, nothing is stored, and a
\* request answered 201 has stored all of them.
C24_ClientWithRacketsAtomic ==
    [][(resp.op = "" /\ resp'.op = "create" /\ resp'.req.kind = "clients") =>
        LET body        == resp'.req.data
            n           == Len(body.rackets)
            new_clients == shop'.clients \ shop.clients
            new_rackets == shop'.rackets \ shop.rackets
        IN
        /\ shop.clients \subseteq shop'.clients
        /\ shop.rackets \subseteq shop'.rackets
        /\ shop'.products = shop.products
        /\ shop'.categories = shop.categories
        /\ records' = records
        /\ \/ new_clients = {} /\ new_rackets = {}
           \/ \E c \in new_clients :
                /\ new_clients = {c}
                /\ c.id = resp'.req.id
                /\ Cardinality(new_rackets) = n
                /\ \A r \in new_rackets : r.client_id = c.id
                /\ \A k \in 1..n : \E r \in new_rackets :
                        r.brand = body.rackets[k].brand
        /\ resp'.status = 201 => new_clients # {}
        /\ body.fail_at \in 1..(n + 2) =>
             resp'.status = 500 /\ shop' = shop
      ]_vars

\* the store failed at the insert of the second of two rackets and neither
\* the client nor the first racket is stored
C24_Witness ==
    /\ resp.op = "create"
    /\ resp.req.kind = "clients"
    /\ resp.status = 500
    /\ Len(resp.req.data.rackets) = 2
    /\ resp.req.data.fail_at = 3
    /\ shop.clients = {}
    /\ shop.rackets = {}

\* C25: create_category is answered 409 and adds no row whenever a category
\* has the name of the body or a category has its slug, also when those are
\* two different categories; otherwise it adds exactly one category; no two
\* categories ever have the same name or the same slug.
C25_CategoryConflict ==
    /\ \A c, d \in shop.categories :
            (c.name = d.name \/ c.slug = d.slug) => c = d
    /\ (resp.op = "create" /\ resp.req.kind = "categories") =>
         /\ resp.status \in {201, 409}
         /\ resp.status = 201 =>
              /\ resp.content \in shop.categories
              /\ resp.content.name = resp.req.data.name
              /\ resp.content.slug = resp.req.data.slug
         /\ resp.status = 409 =>
              \E c \in shop.categories :
                    \/ c.name = resp.req.data.name
                    \/ c.slug = resp.req.data.slug

\* C26: create_product with a category_id that names no category,
\* create_racket with a client_id that names no client, and
\* create_maintenance_record with a client_racket_id that names no racket or
\* a product id, in any of the five columns, that is given and names no
\* product, are answered 404 and add no row.
C26_ReferencesChecked ==
    [][(resp.op = "" /\ resp'.op = "create") =>
        LET data    == resp'.req.data
            kind    == resp'.req.kind
            Ids(k)  == {r.id : r \in shop[k]}
            missing ==
              CASE kind = "products" -> data.category_id \notin Ids("categories")
                [] kind = "rackets"  -> data.client_id \notin Ids("clients")
                [] kind = "records"  ->
                     \/ data.client_racket_id \notin Ids("rackets")
                     \/ \E k \in 1..Len(ProductIdColumns) :
                          /\ data[ProductIdColumns[k]] # None
                          /\ data[ProductIdColumns[k]] \notin Ids("products")
                [] OTHER -> FALSE
        IN
        /\ missing => /\ resp'.status = 404
                      /\ shop' = shop
                      /\ records' = records
        /\ (~missing /\ kind \in {"products", "rackets", "records"}) =>
             resp'.status # 404
      ]_vars

\* a maintenance record naming an existing racket and an existing main
\* string was refused with 404 for its dampener, and no record is stored
C26_Witness ==
    /\ resp.op = "create"
    /\ resp.req.kind = "records"
    /\ resp.status = 404
    /\ resp.req.data.client_racket_id \in {r.id : r \in shop.rackets}
    /\ resp.req.data.main_string_id \in {r.id : r \in shop.products}
    /\ resp.req.data.dampener_id = "pr-9"
    /\ records = {}

\* C27: in every reachable state every maintenance record names an existing
\* racket, an existing user as performed_by_user_id and, in each product
\* column that is not null, an existing product; every racket names an
\* existing client and every product an existing category.
C27_ReferentialIntegrity ==
    /\ \A r \in records :
        /\ \E k \in shop.rackets : k.id = r.client_racket_id
        /\ \E u \in users : u.id = r.performed_by_user_id
        /\ \A c \in 1..Len(ProductIdColumns) :
              r[ProductIdColumns[c]] # None =>
                \E p \in shop.products : p.id = r[ProductIdColumns[c]]
    /\ \A k \in shop.rackets : \E c \in shop.clients : c.id = k.client_id
    /\ \A p \in shop.products :
          \E c \in shop.categories : c.id = p.category_id

\* C28: a delete of an existing maintenance record is answered 204 and
\* removes that record and no other; from then on get_maintenance_record
\* and a second delete of its id are answered 404, and no page of
\* list_maintenance_records and no racket's history holds it; a delete of an
\* id no record has is answered 404 and changes nothing; a removed record
\* never comes back.
C28_DeleteRemovesRecord ==
    [][/\ \A r \in records' : r.id \notin shop'.deleted
       /\ (resp.op = "" /\ resp'.op = "delete" /\ resp'.req.kind = "records") =>
            LET id    == resp'.req.id
                found == {r \in records : r.id = id}
            IN
            IF found = {}
              THEN resp'.status = 404 /\ records' = records
              ELSE
                /\ resp'.status = 204
                /\ Cardinality(found) = 1
                /\ records' = records \ found
                /\ get_maintenance_record(id, records').status = 404
                /\ delete_maintenance_record(id, records').status = 404
                /\ \A tiebreak \in Tiebreaks(RecordIds) :
                    /\ \A page \in 1..2, limit \in 1..2 :
                         LET listed == list_maintenance_records(
                                 NoFilters, page, limit, records', tiebreak)
                         IN  /\ listed.status = 200
                             /\ \A i \in DOMAIN listed.content.items :
                                    listed.content.items[i].id # id
                    /\ \A k \in shop'.rackets :
                         LET history == get_racket_history(
                                 k.id, shop', records', tiebreak)
                         IN  /\ history.status = 200
                             /\ \A i \in DOMAIN history.content :
                                    history.content[i].id # id
      ]_vars

\* a second delete of a removed record is answered 404 while the other
\* record is still stored
C28_Witness ==
    /\ resp.op = "delete"
    /\ resp.req.kind = "records"
    /\ resp.status = 404
    /\ resp.req.id \in shop.deleted
    /\ Cardinality(records) = 1

\* C29: a list request with page >= 1 and 1 <= limit <= 100 is answered
\* with total the number of rows matching the filters, the same for every
\* page; total_pages the least number of pages of limit rows that hold
\* total rows (0 when total is 0); and items the rows at positions
\* (page-1)*limit .. page*limit-1 of the matching rows by falling
\* service_date: at most limit rows, none for a page after the last.
C29_Pagination ==
    resp.op = "list" =>
      LET page     == resp.req.data.page
          limit    == resp.req.data.limit
          filters  == resp.req.data.filters
          c        == resp.content
          offset   == (page - 1) * limit
          matching ==
            {r \in records :
                /\ filters.client_racket_id \in {None, r.client_racket_id}
                /\ filters.service_type \in {None, r.service_type}
                /\ filters.date_from < 0 \/ filters.date_from <= r.service_date
                /\ filters.date_to < 0 \/ r.service_date <= filters.date_to}
          total    == Cardinality(matching)
          listed   == {c.items[i] : i \in DOMAIN c.items}
          rest     == IF total > offset THEN total - offset ELSE 0
      IN
      (page >= 1 /\ limit >= 1 /\ limit <= 100) =>
        /\ resp.status = 200
        /\ c.total = total
        /\ \A p \in 1..MaxPage :
              list_maintenance_records(filters, p, limit, records,
                                       PageIds).content.total = total
        /\ c.total_pages * limit >= total
        /\ c.total_pages >= 0
        /\ c.total_pages > 0 => (c.total_pages - 1) * limit < total
        /\ total = 0 => c.total_pages = 0
        /\ Len(c.items) <= limit
        /\ Len(c.items) = IF rest < limit THEN rest ELSE limit
        /\ page > c.total_pages => c.items = <<>>
        /\ listed \subseteq matching
        /\ Cardinality(listed) = Len(c.items)
        /\ \A i, j \in DOMAIN c.items :
              i < j => c.items[i].service_date >= c.items[j].service_date
        /\ c.items # <<>> =>
             \E before \in SUBSET (matching \ listed) :
                /\ Cardinality(before) = offset
                /\ \A r \in before :
                      r.service_date >= c.items[1].service_date
                /\ \A r \in matching \ (before \cup listed) :
                      r.service_date <= c.items[Len(c.items)].service_date

\* the second page of three rows listed by two holds the one remaining
\* row, the oldest, and total_pages is 2
C29_Witness ==
    /\ resp.op = "list"
    /\ resp.status = 200
    /\ resp.req.data.page = 2
    /\ resp.req.data.limit = 2
    /\ resp.content.total = 3
    /\ resp.content.total_pages = 2
    /\ Len(resp.content.items) = 1
    /\ \A r \in records : r.service_date >= resp.content.items[1].service_date

====
